---------------------------- MODULE Spec2Model ----------------------------
(* A model of the apexlog OpenTracing provider: the Tracer (field merging, *)
(* span start, the inject/extract stubs) and the Span (baggage, tags,      *)
(* logging calls, finish), together with the calls they make on the       *)
(* structured-logging sink.                                                *)
(*                                                                         *)
(* Go maps are reference values.  A span's baggage map lives in `heap`     *)
(* and the span holds its address (0 is the nil map), so that two spans    *)
(* sharing one map is a state the model can express.  The address of the   *)
(* map a span allocates is the span's own index: any fresh address would   *)
(* do.  The tag map of a span is never handed to anybody else and is kept  *)
(* by value, with a flag for the nil map.                                  *)
(*                                                                         *)
(* Dynamically typed Go values (interface{}) are records [kind, val]: the  *)
(* dynamic type and a rendering of the value.                              *)
EXTENDS Integers, Sequences, FiniteSets, TLC

VARIABLES
    tracer,   \* the Tracer: [logger, msgKey]
    spans,    \* the spans created so far, in creation order
    heap,     \* address -> baggage map (string -> string)
    entries,  \* the sink's entries: entries[e] = [parent, stops]
    out,      \* the calls the last operation made on the sink, in order
    ret       \* what the last operation returned

vars == <<tracer, spans, heap, entries, out, ret>>

-----------------------------------------------------------------------------
(* Bounds *)

MaxSpans == 3
MaxTagsSpans == 2
MaxRefs == 2
MaxStops == 1
MaxFields == 2
MaxRecords == 2
MaxRecordFields == 1
MaxKV == 4
MaxOptions == 2

-----------------------------------------------------------------------------
(* Values *)

DefaultMsgKey == "message"

ChildOfRef == "ChildOfRef"
FollowsFromRef == "FollowsFromRef"

ErrUnsupportedFormat == "ErrUnsupportedFormat"
NoError == "nil"

\* An interface{} value holding a Go string, an int, a bool, an error.
VString(x) == [kind |-> "string", val |-> x]
VInt(x) == [kind |-> "int", val |-> x]
VBool(x) == [kind |-> "bool", val |-> x]
VError(x) == [kind |-> "error", val |-> x]

\* A Go map: a function whose domain is the set of keys present.
EmptyMap == [k \in {} |-> ""]

MapPut(m, k, v) == [x \in (DOMAIN m) \cup {k} |-> IF x = k THEN v ELSE m[x]]

\* for k, v := range src { dst[k] = v }
MapPutAll(dst, src) ==
    [x \in (DOMAIN dst) \cup (DOMAIN src) |-> IF x \in DOMAIN src THEN src[x] ELSE dst[x]]

\* All maps with keys among K and values among V.
Maps(K, V) == UNION {[D -> V] : D \in SUBSET K}

\* All sequences over S of length at most n.
SeqsUpTo(S, n) == UNION {[1..i -> S] : i \in 0..n}

-----------------------------------------------------------------------------
(* Span: fields and baggage accessors *)

SpanIds == 1..Len(spans)

\* The baggage map of span s; ranging over or reading the nil map finds nothing.
BaggageOf(s) == IF spans[s].baggage = 0 THEN EmptyMap ELSE heap[spans[s].baggage]

\* The tag map of span s, the nil map read as empty.
TagsOf(s) == IF spans[s].tagsNil THEN EmptyMap ELSE spans[s].tags

BaggageItem(s, restrictedKey) ==
    IF spans[s].baggage = 0 THEN ""
    ELSE IF restrictedKey \in DOMAIN heap[spans[s].baggage]
         THEN heap[spans[s].baggage][restrictedKey]
         ELSE ""

\* What SetBaggageItem does to span record sp (index s) and heap h.
PutBaggage(sp, h, s, k, v) ==
    IF sp.baggage = 0
    THEN [span |-> [sp EXCEPT !.baggage = s], heap |-> h @@ (s :> MapPut(EmptyMap, k, v))]
    ELSE [span |-> sp, heap |-> [h EXCEPT ![sp.baggage] = MapPut(@, k, v)]]

-----------------------------------------------------------------------------
(* The sink calls and the return record *)

\* A call on the sink: made on logger `on` (an entry, or 0 for the tracer's own
\* logger), about entry `entry` (the entry a Trace opens; `on` itself otherwise).
SinkCall(c, on, e, m, f, wf) ==
    [call |-> c, on |-> on, entry |-> e, msg |-> m, fields |-> f,
     withFields |-> wf, err |-> NoError]

\* on.WithFields(f).Trace(name), which opens entry e
TraceCall(on, e, name, f) == SinkCall("Trace", on, e, name, f, TRUE)
\* e.WithFields(f).Info(msg) and e.Info(msg)
InfoCall(e, m, f, wf) == SinkCall("Info", e, e, m, f, wf)
\* e.Stop(nil)
StopCall(e) == SinkCall("Stop", e, e, "", EmptyMap, FALSE)

Ret(op, ctx, val, err, calls) ==
    [op |-> op, ctx |-> ctx, val |-> val, err |-> err, calls |-> calls]

-----------------------------------------------------------------------------
(* Tracer *)

\* The option WithMsgKey(msgKey), applied to config c.
WithMsgKey(msgKey, c) == [c EXCEPT !.msgKey = msgKey]

\* for _, opt := range options { opt(c) }; an option is the key it sets.
RECURSIVE ApplyOptions(_, _)
ApplyOptions(c, options) ==
    IF options = << >> THEN c
    ELSE ApplyOptions(WithMsgKey(Head(options), c), Tail(options))

New(logger, options) ==
    LET c == ApplyOptions([msgKey |-> DefaultMsgKey], options)
    IN  [logger |-> IF logger = "nil" THEN "log.Log" ELSE logger,
         msgKey |-> c.msgKey]

\* A slip: any value is rendered as the message.
AsStringAnyKind(value) == value.val

\* msg, _ = value.(string): the zero string when value holds no string.
AsString(value) == IF value.kind = "string" THEN value.val ELSE ""

\* The loop over the explicit fields, from field i on; acc is [msg, f].
RECURSIVE FieldsLoop(_, _, _, _)
FieldsLoop(msgKey, acc, fields, i) ==
    IF i > Len(fields) THEN acc
    ELSE LET key == fields[i].key
             value == fields[i].value
         IN  FieldsLoop(msgKey,
                        IF key = msgKey
                        THEN [acc EXCEPT !.msg = AsString(value)]
                        ELSE [acc EXCEPT !.f = MapPut(@, key, value)],
                        fields, i + 1)

\* A baggage map as log.Fields: every string stored as an interface{} value.
AsFields(baggage) == [k \in DOMAIN baggage |-> VString(baggage[k])]

\* A slip: the baggage is laid over the tags.
makeFieldsBaggageLast(msgKey, baggage, tags, fields) ==
    FieldsLoop(msgKey,
               [msg |-> "", f |-> MapPutAll(MapPutAll(EmptyMap, tags), AsFields(baggage))],
               fields, 1)

makeFields(msgKey, baggage, tags, fields) ==
    FieldsLoop(msgKey,
               [msg |-> "", f |-> MapPutAll(MapPutAll(EmptyMap, AsFields(baggage)), tags)],
               fields, 1)

\* The sink call Tracer.info makes on entry e.
info(msgKey, e, baggage, tags, fields) ==
    LET r == makeFields(msgKey, baggage, tags, fields)
    IN  IF DOMAIN r.f # {}
        THEN InfoCall(e, r.msg, r.f, TRUE)
        ELSE InfoCall(e, r.msg, EmptyMap, FALSE)

\* A referenced context: a *Span of this package, or some other SpanContext.
SpanCtx(s) == [kind |-> "Span", id |-> s]
OtherCtx == [kind |-> "Other", id |-> 0]

Reference(type, ctx) == [type |-> type, ctx |-> ctx]

\* The loop over options.References from reference i on; parent is the span
\* index found so far, 0 for nil.
RECURSIVE ParentLoop(_, _, _)
ParentLoop(parent, refs, i) ==
    IF i > Len(refs) THEN parent
    ELSE LET ref == refs[i]
         IN  ParentLoop(IF ref.type = ChildOfRef /\ ref.ctx.kind = "Span"
                        THEN ref.ctx.id
                        ELSE parent,
                        refs, i + 1)

\* A slip: the reference type is not looked at.
RECURSIVE ParentLoopAnyType(_, _, _)
ParentLoopAnyType(parent, refs, i) ==
    IF i > Len(refs) THEN parent
    ELSE ParentLoopAnyType(IF refs[i].ctx.kind = "Span" THEN refs[i].ctx.id ELSE parent,
                           refs, i + 1)

ResolveParentAnyType(refs) == ParentLoopAnyType(0, refs, 1)

\* A slip: the loop stops at the first child-of reference to a Span.
RECURSIVE ResolveParentFirst(_)
ResolveParentFirst(refs) ==
    IF refs = << >> THEN 0
    ELSE IF Head(refs).type = ChildOfRef /\ Head(refs).ctx.kind = "Span"
         THEN Head(refs).ctx.id
         ELSE ResolveParentFirst(Tail(refs))

ResolveParent(refs) == ParentLoop(0, refs, 1)

\* span := &Span{...}: baggage and tags are nil maps, no entry yet (0).
NewSpan(operationName) ==
    [operationName |-> operationName, logger |-> 0,
     baggage |-> 0, tagsNil |-> TRUE, tags |-> EmptyMap]

\* for k, v := range parent.baggage { span.SetBaggageItem(k, v) }, on the
\* new span sp (index s) and the current heap: the keys still to copy.
RECURSIVE CopyBaggage(_, _, _, _, _)
CopyBaggage(sp, h, s, src, keys) ==
    IF keys = {} THEN [span |-> sp, heap |-> h]
    ELSE LET k == CHOOSE x \in keys : TRUE
             r == PutBaggage(sp, h, s, k, src[k])
         IN  CopyBaggage(r.span, r.heap, s, src, keys \ {k})

\* A slip: the new span takes the parent's map itself.
InheritBaggageShared(sp, s, parent) ==
    IF parent # 0
    THEN [span |-> [sp EXCEPT !.baggage = spans[parent].baggage], heap |-> heap]
    ELSE [span |-> sp, heap |-> heap]

\* A slip: the parent's tags are handed down like its baggage.
InheritBaggageAndTags(sp, s, parent) ==
    IF parent # 0
    THEN CopyBaggage([sp EXCEPT !.tagsNil = spans[parent].tagsNil, !.tags = spans[parent].tags],
                     heap, s, BaggageOf(parent), DOMAIN BaggageOf(parent))
    ELSE [span |-> sp, heap |-> heap]

InheritBaggage(sp, s, parent) ==
    IF parent # 0
    THEN CopyBaggage(sp, heap, s, BaggageOf(parent), DOMAIN BaggageOf(parent))
    ELSE [span |-> sp, heap |-> heap]

\* What StartSpan does to the spans and to the sink's entries: it resolves the
\* parent, builds the span, copies the baggage and opens the entry.
StartSpanState(operationName, refs) ==
    /\ Len(spans) < MaxSpans
    /\ LET s == Len(spans) + 1
           parent == ResolveParent(refs)
           r == InheritBaggage(NewSpan(operationName), s, parent)
           on == IF parent = 0 THEN 0 ELSE spans[parent].logger
       IN  /\ ret' = Ret("StartSpan", s, "", NoError, << >>)
           /\ entries' = Append(entries, [parent |-> on, stops |-> 0])
           /\ spans' = Append(spans, [r.span EXCEPT !.logger = s])
           /\ heap' = r.heap
    /\ UNCHANGED tracer

\* StartSpan with the tags of its options: the Trace call carries the fields
\* made of the new span's baggage and of those tags.
StartSpan(operationName, refs, optTags) ==
    /\ StartSpanState(operationName, refs)
    /\ \E s \in {Len(spans) + 1} :
          LET tags == MapPutAll(EmptyMap, optTags)
              f == makeFields(tracer.msgKey, BaggageOf(s)', tags, << >>).f
          IN  out' = << TraceCall(entries'[s].parent, s, operationName, f) >>

\* A slip: the stub reports success.
InjectNoError(sm, format, carrier) ==
    /\ ret' = Ret("Inject", 0, "", NoError, << >>)
    /\ out' = << >>
    /\ UNCHANGED <<tracer, spans, heap, entries>>

Inject(sm, format, carrier) ==
    /\ ret' = Ret("Inject", 0, "", ErrUnsupportedFormat, << >>)
    /\ out' = << >>
    /\ UNCHANGED <<tracer, spans, heap, entries>>

Extract(format, carrier) ==
    /\ ret' = Ret("Extract", 0, "", ErrUnsupportedFormat, << >>)
    /\ out' = << >>
    /\ UNCHANGED <<tracer, spans, heap, entries>>

-----------------------------------------------------------------------------
(* Span *)

SetBaggageItem(s, restrictedKey, value) ==
    /\ s \in SpanIds
    /\ LET r == PutBaggage(spans[s], heap, s, restrictedKey, value)
       IN  /\ spans' = [spans EXCEPT ![s] = r.span]
           /\ heap' = r.heap
    /\ ret' = Ret("SetBaggageItem", s, "", NoError, << >>)
    /\ out' = << >>
    /\ UNCHANGED <<tracer, entries>>

GetBaggageItem(s, restrictedKey) ==
    /\ s \in SpanIds
    /\ ret' = Ret("BaggageItem", 0, BaggageItem(s, restrictedKey), NoError, << >>)
    /\ out' = << >>
    /\ UNCHANGED <<tracer, spans, heap, entries>>

\* The orders in which a range over map m may visit its keys.
RangeOrders(m) ==
    {p \in [1..Cardinality(DOMAIN m) -> DOMAIN m] : \A k \in DOMAIN m : \E i \in DOMAIN p : p[i] = k}

\* The handler calls the loop of ForeachBaggageItem makes from position i on,
\* visiting m in `order`; the handler returns true exactly on the pairs in yes.
RECURSIVE HandlerCalls(_, _, _, _)
HandlerCalls(m, order, yes, i) ==
    IF i > Len(order) THEN << >>
    ELSE LET k == order[i]
             ok == <<k, m[k]>> \in yes
         IN  << <<k, m[k]>> >> \o (IF ok THEN << >> ELSE HandlerCalls(m, order, yes, i + 1))

ForeachBaggageItem(s, order, yes) ==
    /\ s \in SpanIds
    /\ order \in RangeOrders(BaggageOf(s))
    /\ ret' = Ret("ForeachBaggageItem", 0, "", NoError, HandlerCalls(BaggageOf(s), order, yes, 1))
    /\ out' = << >>
    /\ UNCHANGED <<tracer, spans, heap, entries>>

Finish(s) ==
    /\ s \in SpanIds
    /\ entries[spans[s].logger].stops < MaxStops
    /\ entries' = [entries EXCEPT ![spans[s].logger].stops = @ + 1]
    /\ out' = << StopCall(spans[s].logger) >>
    /\ ret' = Ret("Finish", 0, "", NoError, << >>)
    /\ UNCHANGED <<tracer, spans, heap>>

\* The info calls for the log records from record i on.
RECURSIVE RecordCalls(_, _, _)
RecordCalls(s, records, i) ==
    IF i > Len(records) THEN << >>
    ELSE << info(tracer.msgKey, spans[s].logger, BaggageOf(s), TagsOf(s), records[i]) >>
         \o RecordCalls(s, records, i + 1)

\* A slip: the entry is stopped before the records are logged.
FinishWithOptionsStopFirst(s, records) ==
    /\ s \in SpanIds
    /\ entries[spans[s].logger].stops < MaxStops
    /\ entries' = [entries EXCEPT ![spans[s].logger].stops = @ + 1]
    /\ out' = << StopCall(spans[s].logger) >> \o RecordCalls(s, records, 1)
    /\ ret' = Ret("FinishWithOptions", 0, "", NoError, << >>)
    /\ UNCHANGED <<tracer, spans, heap>>

FinishWithOptions(s, records) ==
    /\ s \in SpanIds
    /\ entries[spans[s].logger].stops < MaxStops
    /\ entries' = [entries EXCEPT ![spans[s].logger].stops = @ + 1]
    /\ out' = RecordCalls(s, records, 1) \o << StopCall(spans[s].logger) >>
    /\ ret' = Ret("FinishWithOptions", 0, "", NoError, << >>)
    /\ UNCHANGED <<tracer, spans, heap>>

Context(s) ==
    /\ s \in SpanIds
    /\ ret' = Ret("Context", s, "", NoError, << >>)
    /\ out' = << >>
    /\ UNCHANGED <<tracer, spans, heap, entries>>

SetOperationName(s, operationName) ==
    /\ s \in SpanIds
    /\ spans' = [spans EXCEPT ![s].operationName = operationName]
    /\ ret' = Ret("SetOperationName", s, "", NoError, << >>)
    /\ out' = << >>
    /\ UNCHANGED <<tracer, heap, entries>>

SetTag(s, key, value) ==
    /\ s \in SpanIds
    /\ spans' = [spans EXCEPT ![s].tagsNil = FALSE, ![s].tags = MapPut(TagsOf(s), key, value)]
    /\ ret' = Ret("SetTag", s, "", NoError, << >>)
    /\ out' = << >>
    /\ UNCHANGED <<tracer, heap, entries>>

LogFields(s, fields) ==
    /\ s \in SpanIds
    /\ out' = << info(tracer.msgKey, spans[s].logger, BaggageOf(s), TagsOf(s), fields) >>
    /\ ret' = Ret("LogFields", 0, "", NoError, << >>)
    /\ UNCHANGED <<tracer, spans, heap, entries>>

\* The otlog.Field the type switch builds for key and value.
KVField(key, value) ==
    IF value.kind = "error"
    THEN [key |-> "error", value |-> value]
    ELSE [key |-> key, value |-> value]

\* The loop of LogKV from position i on (i, i+1 are a key and its value).
RECURSIVE KVFields(_, _)
KVFields(alternatingKeyValues, i) ==
    IF i + 1 > Len(alternatingKeyValues) THEN << >>
    ELSE IF alternatingKeyValues[i].kind # "string"
         THEN KVFields(alternatingKeyValues, i + 2)
         ELSE << KVField(alternatingKeyValues[i].val, alternatingKeyValues[i + 1]) >>
              \o KVFields(alternatingKeyValues, i + 2)

\* LogKV builds the field list and drops it.
LogKV(s, alternatingKeyValues) ==
    /\ s \in SpanIds
    /\ out' = << >>
    /\ ret' = Ret("LogKV", 0, "", NoError, << >>)
    /\ UNCHANGED <<tracer, spans, heap, entries>>

-----------------------------------------------------------------------------
(* Inputs *)

Loggers == {"nil", "custom"}
OpNames == {"parent", "child"}
RefTypes == {ChildOfRef, FollowsFromRef}

\* The contexts a caller can reference: the spans started so far, or a foreign one.
Contexts == {SpanCtx(s) : s \in SpanIds} \cup {OtherCtx}
References == {Reference(t, c) : t \in RefTypes, c \in Contexts}
RefSeqs == SeqsUpTo(References, MaxRefs)

Formats == {"TextMap", "Binary"}
Carriers == {"map", "nil"}

BaggageKeys == {"a", "b"}
BaggageValues == {"1", "2"}
\* The handlers tried: one per set of keys, true exactly on the pairs of those keys.
Handlers == {K \X BaggageValues : K \in SUBSET BaggageKeys}

TagPairs == {<<"a", VString("2")>>, <<"a", VString("3")>>, <<"b", VString("3")>>}
TagKeys == {p[1] : p \in TagPairs}
TagValues == {p[2] : p \in TagPairs}
TagMaps == {m \in Maps(TagKeys, TagValues) : \A k \in DOMAIN m : <<k, m[k]>> \in TagPairs}

FieldKeys == {"a", "b", DefaultMsgKey}
Fields ==
    {[key |-> "a", value |-> VString("4")], [key |-> "a", value |-> VInt("1500")],
     [key |-> "b", value |-> VString("4")], [key |-> "b", value |-> VInt("1500")],
     [key |-> DefaultMsgKey, value |-> VString("hello")],
     [key |-> DefaultMsgKey, value |-> VInt("1500")]}
FieldSeqs == SeqsUpTo(Fields, MaxFields)
RecordFields ==
    {[key |-> "a", value |-> VString("4")], [key |-> DefaultMsgKey, value |-> VString("hello")]}
RecordSeqs == SeqsUpTo(SeqsUpTo(RecordFields, MaxRecordFields), MaxRecords)

KVElements == {VString("event"), VString("soft error"), VString("waited.millis"), VInt("1500")}
KVSeqs == SeqsUpTo(KVElements, MaxKV)

MsgKeyOptions == {"b", DefaultMsgKey}
OptionSeqs == SeqsUpTo(MsgKeyOptions, MaxOptions)

-----------------------------------------------------------------------------
(* Specifications *)

InitWith(loggers, optionSeqs) ==
    /\ \E logger \in loggers, options \in optionSeqs : tracer = New(logger, options)
    /\ spans = << >>
    /\ heap = << >>
    /\ entries = << >>
    /\ out = << >>
    /\ ret = Ret("New", 0, "", NoError, << >>)

(* The trace tree and the span lifecycle, on the data of TestParentChild. *)
Init == InitWith({"nil"}, {<< >>})

Next ==
    \/ \E name \in OpNames, refs \in RefSeqs, optTags \in {EmptyMap, [tk |-> VString("tv")]} :
          StartSpan(name, refs, optTags)
    \/ \E s \in SpanIds : SetBaggageItem(s, "bk", "bv")
    \/ \E s \in SpanIds : Finish(s)
    \/ \E c \in Contexts, format \in Formats, carrier \in Carriers : Inject(c, format, carrier)
    \/ \E format \in Formats, carrier \in Carriers : Extract(format, carrier)

Spec == Init /\ [][Next]_vars

(* Baggage: inheritance, isolation and iteration. *)
BaggageInit == InitWith({"nil"}, {<< >>})

BaggageNext ==
    \/ \E refs \in SeqsUpTo(References, 1), optTags \in {EmptyMap, [a |-> VString("2")]} :
          StartSpan("op", refs, optTags)
    \/ \E s \in SpanIds, k \in BaggageKeys, v \in BaggageValues : SetBaggageItem(s, k, v)
    \/ \E s \in SpanIds, k \in BaggageKeys : GetBaggageItem(s, k)
    \/ \E s \in SpanIds, yes \in Handlers :
          \E order \in RangeOrders(BaggageOf(s)) : ForeachBaggageItem(s, order, yes)

BaggageSpec == BaggageInit /\ [][BaggageNext]_vars

(* Tags, with a baggage key and a log field that collide with a tag key, on a
   parent and a child, for both loggers. *)
TagsInit == InitWith(Loggers, {<< >>})

TagsNext ==
    \/ /\ Len(spans) < MaxTagsSpans
       /\ \E name \in OpNames, refs \in SeqsUpTo(References, 1),
             optTags \in {EmptyMap, [a |-> VString("3")]} :
             StartSpan(name, refs, optTags)
    \/ \E s \in SpanIds, p \in TagPairs : SetTag(s, p[1], p[2])
    \/ \E s \in SpanIds : SetBaggageItem(s, "a", "1")
    \/ \E s \in SpanIds, name \in OpNames : SetOperationName(s, name)
    \/ \E s \in SpanIds : Context(s)
    \/ \E s \in SpanIds, fields \in SeqsUpTo({[key |-> "a", value |-> VString("4")]}, 1) :
          LogFields(s, fields)

TagsSpec == TagsInit /\ [][TagsNext]_vars

(* Field merging and the logging calls, on one root span and every message key. *)
FieldsInit == InitWith({"nil"}, OptionSeqs)

FieldsNext ==
    \/ /\ spans = << >>
       /\ \E optTags \in TagMaps : StartSpan("op", << >>, optTags)
    \/ \E s \in SpanIds, k \in {"a", DefaultMsgKey} : SetBaggageItem(s, k, "1")
    \/ \E s \in SpanIds, p \in TagPairs : SetTag(s, p[1], p[2])
    \/ \E s \in SpanIds, fields \in FieldSeqs : LogFields(s, fields)
    \/ \E s \in SpanIds, kvs \in KVSeqs : LogKV(s, kvs)
    \/ \E s \in SpanIds : Finish(s)
    \/ \E s \in SpanIds, records \in RecordSeqs : FinishWithOptions(s, records)

FieldsSpec == FieldsInit /\ [][FieldsNext]_vars

-----------------------------------------------------------------------------
(* Vocabulary of the properties *)

\* Every key and every start-option tag map some specification uses.
AnyKeys == BaggageKeys \cup TagKeys \cup FieldKeys \cup {"bk", "tk"}
AnyStartTags == TagMaps \cup {[tk |-> VString("tv")]}
AnyTagPairs == TagPairs \cup {<<"tk", VString("tv")>>}

\* The positions of the child-of references to a Span, and the span the last
\* of them names (0 when there is none).
ChildOfSpans(refs) ==
    {i \in DOMAIN refs : refs[i].type = ChildOfRef /\ refs[i].ctx.kind = "Span"}

HonoredParent(refs) ==
    IF ChildOfSpans(refs) = {} THEN 0
    ELSE refs[CHOOSE i \in ChildOfSpans(refs) : \A j \in ChildOfSpans(refs) : j <= i].ctx.id

\* This step is a call of StartSpan with references refs.
StartSpanStep(refs) ==
    /\ ret'.op = "StartSpan"
    /\ Len(spans') = Len(spans) + 1
    /\ StartSpanState(spans'[Len(spans')].operationName, refs)

-----------------------------------------------------------------------------
(* C1: a span started as the child of P has, right after its creation, P's
   value for every baggage key P then has, and a SetBaggageItem on one span
   never changes what BaggageItem returns on another: parent and child never
   share baggage storage. *)
C1_Step ==
    /\ ret'.op = "StartSpan" =>
          \A refs \in RefSeqs :
             StartSpanStep(refs) /\ HonoredParent(refs) # 0 =>
             \A c \in {Len(spans) + 1}, k \in DOMAIN BaggageOf(HonoredParent(refs)) :
                /\ BaggageItem(c, k)' = BaggageItem(HonoredParent(refs), k)
                /\ BaggageItem(HonoredParent(refs), k)' = BaggageItem(HonoredParent(refs), k)
    /\ ret'.op = "SetBaggageItem" =>
          \A o \in SpanIds \ {ret'.ctx} : \A k \in AnyKeys :
             BaggageItem(o, k)' = BaggageItem(o, k)

C1_BaggageCopiedNotShared == [][C1_Step]_vars

\* The parent changed a key after the child was started; the child kept the old value.
C1_Witness ==
    /\ Len(spans) >= 2
    /\ entries[spans[2].logger].parent = spans[1].logger
    /\ ret.op = "SetBaggageItem" /\ ret.ctx = 1
    /\ BaggageItem(1, "a") = "2" /\ BaggageItem(2, "a") = "1"
    /\ BaggageItem(1, "b") = "1" /\ BaggageItem(2, "b") = "1"

-----------------------------------------------------------------------------
(* The documented contract of ForeachBaggageItem: the handler is called on the
   entries in the order visited, up to and including the first one on which it
   returns false. *)
ContractCalls(m, order, yes) ==
    LET stops == {i \in DOMAIN order : <<order[i], m[order[i]]>> \notin yes}
        last == IF stops = {} THEN Len(order)
                ELSE CHOOSE i \in stops : \A j \in stops : i <= j
    IN  [i \in 1..last |-> <<order[i], m[order[i]]>>]

(* C4: ForeachBaggageItem goes on while the handler returns true and halts as
   soon as it returns false: a handler that always returns true is called
   once for every baggage entry, one that returns false at once is called
   exactly once. *)
C4_ForeachContract ==
    [][ret'.op = "ForeachBaggageItem" =>
         \A s \in SpanIds, yes \in Handlers : \A order \in RangeOrders(BaggageOf(s)) :
            ForeachBaggageItem(s, order, yes) =>
               ret'.calls = ContractCalls(BaggageOf(s), order, yes)]_vars

-----------------------------------------------------------------------------
(* C8: a span started with no child-of reference to a Span has empty baggage
   right after its creation, whatever tags it was started with and whatever
   baggage the other spans hold: BaggageItem returns "" for every key, and
   ForeachBaggageItem calls no handler. *)
C8_Step ==
    ret'.op = "StartSpan" =>
       \A refs \in RefSeqs :
          StartSpanStep(refs) /\ ChildOfSpans(refs) = {} =>
             \A c \in {Len(spans) + 1} :
                /\ \A k \in AnyKeys : BaggageItem(c, k)' = ""
                /\ RangeOrders(BaggageOf(c))' = {<< >>}
                /\ \A yes \in Handlers : HandlerCalls(BaggageOf(c), << >>, yes, 1)' = << >>

C8_RootBaggageEmpty == [][C8_Step]_vars

\* A root span was just started with tags while another span holds baggage.
C8_Witness ==
    /\ ret.op = "StartSpan" /\ ret.ctx = 2
    /\ entries[spans[2].logger].parent = 0
    /\ DOMAIN BaggageOf(1) = {"a", "b"}
    /\ BaggageOf(2) = EmptyMap
    /\ DOMAIN out[1].fields = {"a"}

-----------------------------------------------------------------------------
(* C6: Inject and Extract return the unsupported-format error for every
   context, format and carrier, in every state; Extract returns no span
   context; neither changes the tracer, a span or an entry, nor calls the
   sink. *)
C6_Step ==
    ret'.op \in {"Inject", "Extract"} =>
       /\ ret'.err = ErrUnsupportedFormat
       /\ ret'.ctx = 0
       /\ out' = << >>
       /\ UNCHANGED <<tracer, spans, heap, entries>>

-----------------------------------------------------------------------------
(* C7: StartSpan opens the new span's entry under the entry of the span named
   by the last child-of reference to a Span, and as a top-level entry of the
   tracer's logger when there is no such reference; the entry is the span's
   own, its place never changes, and Finish stops it once, with no error. *)
C7_Step ==
    /\ ret'.op = "StartSpan" =>
          \A refs \in RefSeqs :
             StartSpanStep(refs) =>
                \A c \in {Len(spans) + 1} :
                   /\ entries'[spans'[c].logger].parent =
                         (IF HonoredParent(refs) = 0 THEN 0
                          ELSE spans[HonoredParent(refs)].logger)
                   /\ spans'[c].logger \notin {spans[o].logger : o \in SpanIds}
                   /\ Len(out') = 1
                   /\ out'[1].call = "Trace"
                   /\ out'[1].entry = spans'[c].logger
                   /\ out'[1].on = entries'[spans'[c].logger].parent
    /\ \A e \in DOMAIN entries : entries'[e].parent = entries[e].parent
    /\ ret'.op = "Finish" =>
          \E s \in SpanIds :
             /\ out' = << StopCall(spans[s].logger) >>
             /\ out'[1].err = NoError
             /\ entries'[spans[s].logger].stops = entries[spans[s].logger].stops + 1
             /\ \A e \in DOMAIN entries \ {spans[s].logger} : entries'[e] = entries[e]

C7_EntryNesting == [][C7_Step]_vars

\* TestParentChild: parent started with tags, baggage set, child started as its
\* child, the child finished, and the parent finished last.
C7_Witness ==
    /\ Len(spans) = 2
    /\ spans[1].operationName = "parent" /\ spans[2].operationName = "child"
    /\ entries[spans[2].logger].parent = spans[1].logger
    /\ entries[spans[1].logger].parent = 0
    /\ BaggageItem(2, "bk") = "bv"
    /\ entries[spans[1].logger].stops = 1 /\ entries[spans[2].logger].stops = 1
    /\ ret.op = "Finish" /\ out = << StopCall(spans[1].logger) >>

-----------------------------------------------------------------------------
(* C10: a span's tag map holds exactly what SetTag last wrote on that span.
   SetTag(k, v) on a span makes k map to v there and changes no other key and
   no other span; StartSpan leaves the new span's tag map empty, whatever the
   tags of its options and of its parent; no other call changes a tag map. *)
C10_Step ==
    /\ ret'.op = "SetTag" =>
          \A s \in SpanIds, p \in AnyTagPairs :
             SetTag(s, p[1], p[2]) =>
                /\ DOMAIN TagsOf(s)' = DOMAIN TagsOf(s) \cup {p[1]}
                /\ \A k \in DOMAIN TagsOf(s)' :
                      TagsOf(s)'[k] = (IF k = p[1] THEN p[2] ELSE TagsOf(s)[k])
                /\ \A o \in SpanIds \ {s} : TagsOf(o)' = TagsOf(o)
    /\ ret'.op = "StartSpan" =>
          \A c \in {Len(spans) + 1} :
             /\ Len(spans') = c
             /\ TagsOf(c)' = EmptyMap
             /\ \A o \in SpanIds : TagsOf(o)' = TagsOf(o)
    /\ ret'.op \notin {"SetTag", "StartSpan"} =>
          /\ Len(spans') = Len(spans)
          /\ \A o \in SpanIds : TagsOf(o)' = TagsOf(o)

C10_TagsLocal == [][C10_Step]_vars

\* A child was just started with the tag a=3 in its options, under a parent
\* whose tag a was written twice (now 2) and which holds baggage a=1: the
\* child has no tag, and its opening entry carries a=3.
C10_Witness ==
    /\ ret.op = "StartSpan" /\ ret.ctx = 2
    /\ entries[spans[2].logger].parent = spans[1].logger
    /\ TagsOf(1) = [a |-> VString("2"), b |-> VString("3")]
    /\ BaggageItem(2, "a") = "1"
    /\ TagsOf(2) = EmptyMap
    /\ out[1].fields = [a |-> VString("3")]

-----------------------------------------------------------------------------
(* The merge rule, stated key by key. *)

KeysOf(fields) == {fields[i].key : i \in DOMAIN fields}

\* The value of the last field of `fields` with key k.
LastValue(fields, k) ==
    fields[CHOOSE i \in DOMAIN fields :
              /\ fields[i].key = k
              /\ \A j \in DOMAIN fields : fields[j].key = k => j <= i].value

\* Explicit fields beat tags beat baggage, for the explicit fields in `explicit`.
Precedence(B, T, fields, explicit) ==
    [k \in (DOMAIN B) \cup (DOMAIN T) \cup explicit |->
        IF k \in explicit THEN LastValue(fields, k)
        ELSE IF k \in DOMAIN T THEN T[k]
        ELSE VString(B[k])]

\* The message: the last field with key K when it holds a string, else empty.
MessageOf(K, fields) ==
    IF K \notin KeysOf(fields) THEN ""
    ELSE IF LastValue(fields, K).kind = "string" THEN LastValue(fields, K).val
    ELSE ""

(* C2 as stated: every key of the explicit fields, the message key included,
   maps to its explicit value in the field mapping a logging call emits. *)
C2_Original ==
    [][ret'.op = "LogFields" =>
         \A s \in SpanIds, fields \in FieldSeqs :
            LogFields(s, fields) =>
               out'[1].fields = Precedence(BaggageOf(s), TagsOf(s), fields, KeysOf(fields))]_vars

(* C2, amended: in the field mapping built for StartSpan, LogFields and
   FinishWithOptions each key maps to the value of the last explicit field
   with that key if there is one and the key is not the message key, else to
   its tag, else to its baggage value; the mapping has no other key. *)
C2_Step ==
    /\ ret'.op = "LogFields" =>
          \A s \in SpanIds, fields \in FieldSeqs :
             LogFields(s, fields) =>
                out'[1].fields = Precedence(BaggageOf(s), TagsOf(s), fields,
                                            KeysOf(fields) \ {tracer.msgKey})
    /\ ret'.op = "FinishWithOptions" =>
          \A s \in SpanIds, records \in RecordSeqs :
             FinishWithOptions(s, records) =>
                \A i \in DOMAIN records :
                   out'[i].fields = Precedence(BaggageOf(s), TagsOf(s), records[i],
                                               KeysOf(records[i]) \ {tracer.msgKey})
    /\ ret'.op = "StartSpan" =>
          \A refs \in RefSeqs, optTags \in AnyStartTags, c \in {Len(spans) + 1} :
             StartSpanStep(refs) /\ StartSpan(spans'[c].operationName, refs, optTags) =>
                out'[1].fields = Precedence(BaggageOf(c), optTags, << >>, {})'

C2_MergePrecedence == [][C2_Step]_vars

\* The example: baggage a=1, tags a=2 and b=3, one explicit field a=4.
C2_Witness ==
    /\ ret.op = "LogFields"
    /\ tracer.msgKey = DefaultMsgKey
    /\ BaggageOf(1) = [a |-> "1"]
    /\ TagsOf(1) = [a |-> VString("2"), b |-> VString("3")]
    /\ out[1].fields = [a |-> VString("4"), b |-> VString("3")]

-----------------------------------------------------------------------------
(* C3 as stated, for messages that are strings: when LogFields is given an
   explicit field with the message key K and the string m, the emitted message
   is m and the emitted field mapping has no key K, whatever the baggage and
   the tags; with no such field the message is empty. *)
C3_Original ==
    [][ret'.op = "LogFields" =>
         \A s \in SpanIds, fields \in FieldSeqs :
            LogFields(s, fields)
            /\ (\A i \in DOMAIN fields :
                   fields[i].key = tracer.msgKey => fields[i].value.kind = "string") =>
               IF tracer.msgKey \in KeysOf(fields)
               THEN /\ \E i \in DOMAIN fields :
                          /\ fields[i].key = tracer.msgKey
                          /\ fields[i].value = VString(out'[1].msg)
                    /\ tracer.msgKey \notin DOMAIN out'[1].fields
               ELSE out'[1].msg = ""]_vars

(* C3, amended: the emitted message is the value of the last explicit field
   with the message key K when that value is a string, and the empty string
   when it is not a string or when no explicit field has key K; the value of
   an explicit field with key K is never stored in the emitted field mapping,
   which has the key K exactly when the span's tags or baggage have it, then
   with the tag's value, else the baggage value.  The record carries the
   fields exactly when the mapping is not empty. *)
C3_Record(s, fields, call) ==
    LET K == tracer.msgKey
        B == BaggageOf(s)
        T == TagsOf(s)
    IN  /\ call.call = "Info"
        /\ call.entry = spans[s].logger
        /\ call.msg = MessageOf(K, fields)
        /\ K \in DOMAIN call.fields <=> K \in (DOMAIN T) \cup (DOMAIN B)
        /\ K \in DOMAIN call.fields =>
              call.fields[K] = (IF K \in DOMAIN T THEN T[K] ELSE VString(B[K]))
        /\ call.withFields <=> DOMAIN call.fields # {}

C3_Step ==
    /\ ret'.op = "LogFields" =>
          \A s \in SpanIds, fields \in FieldSeqs :
             LogFields(s, fields) => Len(out') = 1 /\ C3_Record(s, fields, out'[1])
    /\ ret'.op = "FinishWithOptions" =>
          \A s \in SpanIds, records \in RecordSeqs :
             FinishWithOptions(s, records) =>
                \A i \in DOMAIN records : C3_Record(s, records[i], out'[i])

C3_MessageExtraction == [][C3_Step]_vars

\* A record with message "hello" whose fields still hold the key "message",
\* which the span's baggage has.
C3_Witness ==
    /\ ret.op = "LogFields"
    /\ tracer.msgKey = DefaultMsgKey
    /\ BaggageItem(1, DefaultMsgKey) = "1"
    /\ out[1].msg = "hello"
    /\ DefaultMsgKey \in DOMAIN out[1].fields
    /\ out[1].fields[DefaultMsgKey] = VString("1")

-----------------------------------------------------------------------------
(* C5: LogKV emits exactly one record on the span's entry, the one LogFields
   emits for the fields built from the pairs with a string key. *)
C5_LogKVEmits ==
    [][ret'.op = "LogKV" =>
         \A s \in SpanIds, kvs \in KVSeqs :
            LogKV(s, kvs) =>
               out' = << info(tracer.msgKey, spans[s].logger, BaggageOf(s), TagsOf(s),
                              KVFields(kvs, 1)) >>]_vars

-----------------------------------------------------------------------------
(* C9: FinishWithOptions with n log records makes n Info calls on the span's
   entry, in record order, the i-th carrying the merge of the span's baggage,
   its tags and the i-th record's fields, and then one Stop call with no
   error, after all of them; Finish makes that single Stop call and no other.
   Each stops the entry once more. *)
C9_Step ==
    /\ ret'.op = "FinishWithOptions" =>
          \A s \in SpanIds, records \in RecordSeqs :
             FinishWithOptions(s, records) =>
                /\ Len(out') = Len(records) + 1
                /\ \A i \in DOMAIN records :
                      /\ out'[i].call = "Info"
                      /\ out'[i].on = spans[s].logger
                      /\ out'[i].msg = MessageOf(tracer.msgKey, records[i])
                      /\ out'[i].fields =
                            Precedence(BaggageOf(s), TagsOf(s), records[i],
                                       KeysOf(records[i]) \ {tracer.msgKey})
                /\ out'[Len(out')].call = "Stop"
                /\ out'[Len(out')].on = spans[s].logger
                /\ out'[Len(out')].err = NoError
                /\ entries'[spans[s].logger].stops = entries[spans[s].logger].stops + 1
    /\ ret'.op = "Finish" =>
          \E s \in SpanIds :
             /\ Len(out') = 1
             /\ out'[1].call = "Stop"
             /\ out'[1].on = spans[s].logger
             /\ out'[1].err = NoError
             /\ entries'[spans[s].logger].stops = entries[spans[s].logger].stops + 1

C9_FinishWithOptions == [][C9_Step]_vars

\* Two records were logged and the entry then stopped, on a span with a tag.
C9_Witness ==
    /\ ret.op = "FinishWithOptions"
    /\ Len(out) = 3
    /\ out[1].call = "Info" /\ out[1].msg = "hello" /\ out[1].fields = [b |-> VString("3")]
    /\ out[2].call = "Info" /\ out[2].msg = ""
    /\ out[2].fields = [a |-> VString("4"), b |-> VString("3")]
    /\ out[3].call = "Stop"
    /\ entries[spans[1].logger].stops = 1

=============================================================================
